---- MODULE Spec2Model ----
(***************************************************************************)
(* Model of notion-dashboard.py: the Notion fetch coordinator              *)
(* (get_notion_data under st.cache_data), the record flattener             *)
(* (parse_notion_data), date conversion, the ID -> Nombre dictionaries and *)
(* the five dashboard sections.                                            *)
(*                                                                         *)
(* Column names are written in ASCII: the emoji prefix of the relation     *)
(* columns and the accents are dropped ("Celula", "Cliente/Empresa",       *)
(* "Producto/Servicio", "Proyecto", "Descripcion", ...).                   *)
(***************************************************************************)
EXTENDS Integers, Sequences, FiniteSets, TLC

VARIABLES
    \* ---- flattener applied to one input pair (specification SpecParse)
    mapping,      \* the schema handed to parse_notion_data: <<col, kind>> pairs
    data,         \* the decoded JSON handed to parse_notion_data
    result,       \* Pending, or what the call produced (a frame or a raise)
    \* ---- the script run (specification Spec)
    secrets,      \* st.secrets: table -> database id
    cache,        \* st.cache_data store of get_notion_data: database id -> value
    requests,     \* database id -> number of HTTP POSTs issued so far
    pc,           \* position of the script run
    raw,          \* data_<table>: what get_notion_data returned
    df,           \* df_<table>: the flat tables
    dicts,        \* client_dict, celula_dict, producto_dict, persona_dict
    section,      \* the sidebar choice of this run
    out,          \* what the section rendered: widget name -> value
    exc,          \* the exception that ended this run, or NoExc
    runs          \* script runs started so far in this server process

parseVars == <<mapping, data, result>>
runVars == <<secrets, cache, requests, pc, raw, df, dicts, section, out, exc, runs>>
vars == <<mapping, data, result, secrets, cache, requests, pc, raw, df, dicts,
          section, out, exc, runs>>

(***************************************************************************)
(* Python values.  A JSON document decoded by response.json() is a tree of *)
(* these; a raised exception is carried as a value of tag "raise".         *)
(***************************************************************************)
None == [t |-> "None"]
Str(s) == [t |-> "str", s |-> s]
Num(n) == [t |-> "num", n |-> n]
List(l) == [t |-> "list", l |-> l]
Dict(d) == [t |-> "dict", d |-> d]
Raise(e) == [t |-> "raise", exc |-> e]

EmptyDict == Dict(<< >>)
EmptyList == List(<< >>)

IsRaise(v) == v.t = "raise"

\* bool(v), as `if titles` and `x if rel else y` evaluate it
Truthy(v) ==
    CASE v.t = "None" -> FALSE
      [] v.t = "str"  -> v.s # ""
      [] v.t = "num"  -> v.n # 0
      [] v.t = "list" -> v.l # << >>
      [] v.t = "dict" -> DOMAIN v.d # {}
      [] OTHER -> TRUE

\* obj.get(key, default): AttributeError unless obj is a dict; a key that is
\* present wins over the default even when its value is None
Get(obj, key, default) ==
    IF IsRaise(obj) THEN obj
    ELSE IF obj.t # "dict" THEN Raise("AttributeError")
    ELSE IF key \in DOMAIN obj.d THEN obj.d[key]
    ELSE default

\* d[key] = value on a dict held as a function
Put(d, key, value) ==
    [k \in DOMAIN d \cup {key} |-> IF k = key THEN value ELSE d[k]]

RECURSIVE JoinStr(_, _)
\* sep.join(items) for a sequence of Str values
JoinStr(items, sep) ==
    IF items = << >> THEN ""
    ELSE IF Len(items) = 1 THEN items[1].s
    ELSE items[1].s \o sep \o JoinStr(Tail(items), sep)

\* [item.get(key, "") for item in v]: iterating a dict or a string yields
\* strings, which have no .get; None and numbers are not iterable
Comprehend(v, key) ==
    CASE v.t = "list" ->
           LET got == [i \in 1..Len(v.l) |-> Get(v.l[i], key, Str(""))]
           IN  IF \E i \in 1..Len(v.l) : IsRaise(got[i])
               THEN Raise("AttributeError")
               ELSE List(got)
      [] v.t \in {"dict", "str"} ->
           IF Truthy(v) THEN Raise("AttributeError") ELSE EmptyList
      [] OTHER -> Raise("TypeError")

\* sep.join([item.get(key, "") for item in v]) if v else ""
JoinOrEmpty(v, key, sep) ==
    IF IsRaise(v) THEN v
    ELSE IF ~Truthy(v) THEN Str("")
    ELSE LET got == Comprehend(v, key)
         IN  IF IsRaise(got) THEN got
             ELSE IF \E i \in 1..Len(got.l) : got.l[i].t # "str"
             THEN Raise("TypeError")
             ELSE Str(JoinStr(got.l, sep))

\* the date branch: lines 69-73
DecodeDate(props, col) ==
    LET value == Get(props, col, None)
    IN  IF IsRaise(value) THEN value
        ELSE IF value.t = "dict" /\ "date" \in DOMAIN value.d
                /\ Truthy(value.d["date"])
        THEN Get(value.d["date"], "start", Str(""))
        ELSE Str("")

\* the relation branch: lines 77-78
DecodeRelation(props, col) ==
    LET rel == Get(Get(props, col, EmptyDict), "relation", EmptyList)
    IN  IF IsRaise(rel) THEN rel
        ELSE IF ~Truthy(rel) THEN EmptyList
        ELSE Comprehend(rel, "id")

\* DecodeColumn with the number branch written .get("number"), without its default
DecodeColumn_numberNoDefault(props, col, col_type) ==
    CASE col_type = "title" ->
           JoinOrEmpty(Get(Get(props, col, EmptyDict), "title", EmptyList),
                       "plain_text", " ")
      [] col_type = "select" ->
           Get(Get(Get(props, col, EmptyDict), "select", EmptyDict), "name", Str(""))
      [] col_type = "multi_select" ->
           JoinOrEmpty(Get(Get(props, col, EmptyDict), "multi_select", EmptyList),
                       "name", ", ")
      [] col_type = "date" -> DecodeDate(props, col)
      [] col_type = "number" ->
           Get(Get(props, col, EmptyDict), "number", None)
      [] col_type = "relation" -> DecodeRelation(props, col)
      [] col_type = "rich_text" ->
           JoinOrEmpty(Get(Get(props, col, EmptyDict), "rich_text", EmptyList),
                       "plain_text", " ")
      [] col_type = "phone_number" ->
           Get(Get(props, col, EmptyDict), "phone_number", Str(""))
      [] col_type = "email" ->
           Get(Get(props, col, EmptyDict), "email", Str(""))
      [] OTHER -> Str("")

\* the if/elif chain on col_type: lines 60-87
DecodeColumn(props, col, col_type) ==
    CASE col_type = "title" ->
           JoinOrEmpty(Get(Get(props, col, EmptyDict), "title", EmptyList),
                       "plain_text", " ")
      [] col_type = "select" ->
           Get(Get(Get(props, col, EmptyDict), "select", EmptyDict), "name", Str(""))
      [] col_type = "multi_select" ->
           JoinOrEmpty(Get(Get(props, col, EmptyDict), "multi_select", EmptyList),
                       "name", ", ")
      [] col_type = "date" -> DecodeDate(props, col)
      [] col_type = "number" ->
           Get(Get(props, col, EmptyDict), "number", Num(0))
      [] col_type = "relation" -> DecodeRelation(props, col)
      [] col_type = "rich_text" ->
           JoinOrEmpty(Get(Get(props, col, EmptyDict), "rich_text", EmptyList),
                       "plain_text", " ")
      [] col_type = "phone_number" ->
           Get(Get(props, col, EmptyDict), "phone_number", Str(""))
      [] col_type = "email" ->
           Get(Get(props, col, EmptyDict), "email", Str(""))
      [] OTHER -> Str("")

RECURSIVE FillRecord_onlyPresent(_, _, _)
\* FillRecord looping over the properties the page carries instead of the schema
FillRecord_onlyPresent(record, props, m) ==
    IF m = << >> THEN Dict(record)
    ELSE IF props.t = "dict" /\ m[1][1] \notin DOMAIN props.d
    THEN FillRecord_onlyPresent(record, props, Tail(m))
    ELSE LET v == DecodeColumn(props, m[1][1], m[1][2])
         IN  IF IsRaise(v) THEN v
             ELSE FillRecord_onlyPresent(Put(record, m[1][1], v), props, Tail(m))

RECURSIVE FillRecord(_, _, _)
\* for col, col_type in mapping.items(): record[col] = ...   (in mapping order;
\* the first column that raises ends the call)
FillRecord(record, props, m) ==
    IF m = << >> THEN Dict(record)
    ELSE LET v == DecodeColumn(props, m[1][1], m[1][2])
         IN  IF IsRaise(v) THEN v
             ELSE FillRecord(Put(record, m[1][1], v), props, Tail(m))

\* the body of `for result in ...`: lines 54-88
FlattenRecord(res, m) ==
    LET page_id == Get(res, "id", Str(""))
        props == Get(res, "properties", EmptyDict)
    IN  IF IsRaise(page_id) THEN page_id
        ELSE FillRecord([k \in {"NotionID"} |-> page_id], props, m)

\* pd.DataFrame(records): the rows in page order; its columns are the keys of
\* the rows, so a frame without rows has no columns
Frame(rows) == [t |-> "frame", rows |-> rows]

RECURSIVE FlattenAll(_, _, _)
\* the loop of lines 52-88 over a list of results
FlattenAll(records, results, m) ==
    IF results = << >> THEN Frame(records)
    ELSE LET r == FlattenRecord(results[1], m)
         IN  IF IsRaise(r) THEN r
             ELSE FlattenAll(Append(records, r.d), Tail(results), m)

\* parse_notion_data(data, mapping): lines 42-89
parse_notion_data(d, m) ==
    LET results == Get(d, "results", EmptyList)
    IN  CASE IsRaise(results) -> results
          [] results.t = "list" -> FlattenAll(<< >>, results.l, m)
          [] results.t \in {"dict", "str"} ->
               IF Truthy(results) THEN Raise("AttributeError") ELSE Frame(<< >>)
          [] OTHER -> Raise("TypeError")

(***************************************************************************)
(* SpecParse: parse_notion_data applied to one (data, mapping) pair drawn  *)
(* from bounded sets of schemas and of raw pages, well-formed and not.     *)
(***************************************************************************)
MaxRecords == 2

Pending == [t |-> "pending"]
Idle == [t |-> "idle"]

\* the nine kinds of the docstring, and one the chain does not know
Kinds == {"title", "select", "multi_select", "date", "number", "relation",
          "rich_text", "phone_number", "email", "formula"}

ColOrder == <<"Nombre", "Valor">>

\* schemas: the sub-sequences of ColOrder, every column of any kind
Mappings ==
    {<< >>}
    \cup {<< <<ColOrder[i], k>> >> : i \in 1..Len(ColOrder), k \in Kinds}
    \cup {<< <<ColOrder[1], k1>>, <<ColOrder[2], k2>> >> : k1 \in Kinds, k2 \in Kinds}

Item1 == Dict([k \in {"plain_text", "name", "id"} |->
                 IF k = "id" THEN Str("id1") ELSE Str("Alpha")])
Item2 == Dict([k \in {"plain_text", "name", "id"} |->
                 IF k = "id" THEN Str("id2") ELSE Str("Beta")])
Obj == Dict([k \in {"name", "start"} |->
                 IF k = "name" THEN Str("Activo") ELSE Str("2024-01-01")])

\* what may sit under a property's kind key
Inners ==
    {None, Str("x"), Num(5), EmptyList, List(<<Item1>>), List(<<Item1, Item2>>),
     List(<<None>>), List(<<EmptyDict>>), Obj, EmptyDict}

\* what a property that is present may be, for a column of kind k
PresentVals(k) ==
    {None, Str("x"), EmptyDict} \cup {Dict([key \in {k} |-> inner]) : inner \in Inners}

RECURSIVE PropsOver(_)
\* the "properties" objects over the columns of m: each column absent or present
PropsOver(m) ==
    IF m = << >> THEN {<< >>}
    ELSE LET rest == PropsOver(Tail(m))
         IN  rest \cup {Put(p, m[1][1], v) : p \in rest, v \in PresentVals(m[1][2])}

RawRecord(id, props) ==
    Dict([k \in {"id", "properties"} |-> IF k = "id" THEN Str(id) ELSE props])

RawRecords(m) ==
    {None, EmptyDict, Dict([k \in {"id"} |-> Str("p1")]), RawRecord("p1", None)}
    \cup {RawRecord("p1", Dict(p)) : p \in PropsOver(m)}

\* the records that may follow the first one of a page
PlainRecords ==
    {EmptyDict, RawRecord("p2", EmptyDict),
     RawRecord("p2", Dict([c \in {"Nombre"} |-> Dict([k \in {"title"} |-> List(<<Item2>>)])]))}

RECURSIVE PagesFrom(_, _)
\* the pages that start with the sequence s and hold at most n more PlainRecords
PagesFrom(s, n) ==
    IF n = 0 THEN {s}
    ELSE {s} \cup UNION {PagesFrom(Append(s, q), n - 1) : q \in PlainRecords}

Pages(m) ==
    {<< >>} \cup UNION {PagesFrom(<<r>>, MaxRecords - 1) : r \in RawRecords(m)}

WithResults(v) == Dict([k \in {"results"} |-> v])

RawDatas(m) ==
    {None, EmptyList, EmptyDict, WithResults(None), WithResults(Str("x")),
     WithResults(Num(5)), WithResults(Obj)}
    \cup {WithResults(List(pg)) : pg \in Pages(m)}

InitParse ==
    /\ mapping \in Mappings
    /\ data \in RawDatas(mapping)
    /\ result = Pending
    /\ secrets = Idle /\ cache = Idle /\ requests = Idle /\ pc = "idle"
    /\ raw = Idle /\ df = Idle /\ dicts = Idle /\ section = Idle
    /\ out = Idle /\ exc = Idle /\ runs = 0

\* one call parse_notion_data(data, mapping)
ParsePage ==
    /\ result = Pending
    /\ result' = parse_notion_data(data, mapping)
    /\ UNCHANGED <<mapping, data>>
    /\ UNCHANGED runVars

SpecParse == InitParse /\ [][ParsePage]_vars

\* ---- reading the input the way the claims speak of it
Cols(m) == {m[i][1] : i \in 1..Len(m)}
KindOf(m, c) == m[CHOOSE i \in 1..Len(m) : m[i][1] = c][2]

\* the raw page is a list of records: a dict whose "results" is a list of dicts
TopLevelOk(d) ==
    /\ d.t = "dict"
    /\ "results" \in DOMAIN d.d
    /\ d.d["results"].t = "list"
    /\ \A i \in 1..Len(d.d["results"].l) : d.d["results"].l[i].t = "dict"

\* the page is a list of records and every record's "properties", when it has
\* one, is an object: whatever is malformed is inside a single property
MalformedOnlyInProperties(d) ==
    /\ TopLevelOk(d)
    /\ \A i \in 1..Len(d.d["results"].l) :
          LET r == d.d["results"].l[i]
          IN  "properties" \in DOMAIN r.d => r.d["properties"].t = "dict"

\* the property for column c is fully absent from raw record r
PropAbsent(r, c) ==
    /\ r.t = "dict"
    /\ \/ "properties" \notin DOMAIN r.d
       \/ /\ r.d["properties"].t = "dict"
          /\ c \notin DOMAIN r.d["properties"].d

\* the default the specification documents for a kind (its section 4.1 table):
\* what the claims expect, not what the code computes
DefaultOf(k) ==
    CASE k = "number" -> Num(0)
      [] k = "relation" -> EmptyList
      [] OTHER -> Str("")

(***************************************************************************)
(* Spec: the script run.  Streamlit executes the script top to bottom on   *)
(* every interaction; the st.cache_data store outlives the runs.           *)
(***************************************************************************)
MaxRuns == 2

NoExc == "none"

\* the fetch order of lines 156-160
Tables == <<"proyectos", "celulas", "productos", "clientes", "personas">>

mapping_proyectos ==
    << <<"Nombre", "title">>, <<"Estado del Proyecto", "select">>,
       <<"Fecha de Inicio Estimada", "date">>, <<"Fecha de Finalizacion Estimada", "date">>,
       <<"Fecha de Inicio Real", "date">>, <<"Fecha de Finalizacion Real", "date">>,
       <<"Valor", "number">>, <<"Descripcion", "rich_text">>,
       <<"Celula", "relation">>, <<"Cliente/Empresa", "relation">>,
       <<"Producto/Servicio", "relation">> >>

mapping_celulas ==
    << <<"Nombre", "title">>, <<"Fecha de Creacion", "date">>,
       <<"Descripcion", "rich_text">>, <<"Personas Asociadas", "relation">>,
       <<"Producto/Servicio", "relation">>, <<"Proyecto", "relation">>,
       <<"Estado", "select">> >>

mapping_productos ==
    << <<"Nombre", "title">>, <<"Descripcion", "rich_text">>, <<"Precio", "number">>,
       <<"Fecha de lanzamiento", "date">>, <<"Proyecto", "relation">>,
       <<"Celula", "relation">>, <<"Estado de Producto", "select">> >>

mapping_clientes ==
    << <<"Nombre", "title">>, <<"Sector", "select">>, <<"Direccion", "rich_text">>,
       <<"Tamano", "select">>, <<"Fecha de Registro", "date">>,
       <<"Proyecto", "relation">>, <<"Estado de Cliente", "select">>,
       <<"Personas Asociadas", "relation">> >>

mapping_personas ==
    << <<"Nombre", "title">>, <<"Estado", "select">>, <<"Cargo", "rich_text">>,
       <<"Mail", "email">>, <<"Telefono", "phone_number">>,
       <<"Cliente/Empresa", "relation">>, <<"Celula", "relation">>,
       <<"Fecha de Registro", "date">>, <<"Tipo Persona", "multi_select">> >>

MappingOf(t) ==
    CASE t = "proyectos" -> mapping_proyectos
      [] t = "celulas" -> mapping_celulas
      [] t = "productos" -> mapping_productos
      [] t = "clientes" -> mapping_clientes
      [] t = "personas" -> mapping_personas

\* ---- the Notion workspace: what a query of each database may answer
TitleProp(s) == Dict([k \in {"title"} |-> List(<<Dict([j \in {"plain_text"} |-> Str(s)])>>)])
TextProp(s) == Dict([k \in {"rich_text"} |-> List(<<Dict([j \in {"plain_text"} |-> Str(s)])>>)])
SelectProp(s) == Dict([k \in {"select"} |-> Dict([j \in {"name"} |-> Str(s)])])
NumProp(n) == Dict([k \in {"number"} |-> Num(n)])
DateProp(s) == Dict([k \in {"date"} |-> Dict([j \in {"start"} |-> Str(s)])])
NoDateProp == Dict([k \in {"date"} |-> None])
RelProp(ids) ==
    Dict([k \in {"relation"} |->
            List([i \in 1..Len(ids) |-> Dict([j \in {"id"} |-> Str(ids[i])])])])

\* the relation list of a record towards the entity id: no link, the entity,
\* an id of no fetched record before the entity, or after it
Links(pat, id) ==
    CASE pat = "none" -> << >>
      [] pat = "known" -> <<id>>
      [] pat = "unknownFirst" -> <<"zz", id>>
      [] pat = "knownFirst" -> <<id, "zz">>

NotionPage(id, props) ==
    Dict([k \in {"object", "id", "properties"} |->
            CASE k = "object" -> Str("page") [] k = "id" -> Str(id) [] OTHER -> Dict(props)])

Proyecto(id, nombre, pat, dated) ==
    NotionPage(id,
        [c \in {"Nombre", "Estado del Proyecto", "Fecha de Inicio Estimada",
                "Fecha de Finalizacion Estimada", "Fecha de Inicio Real",
                "Fecha de Finalizacion Real", "Valor", "Celula", "Cliente/Empresa",
                "Producto/Servicio"} |->
            CASE c = "Nombre" -> TitleProp(nombre)
              [] c = "Estado del Proyecto" -> SelectProp("En curso")
              [] c = "Fecha de Inicio Estimada" -> DateProp("2024-01-01")
              [] c = "Fecha de Finalizacion Estimada" -> DateProp("2024-01-11")
              [] c = "Fecha de Inicio Real" ->
                   IF dated THEN DateProp("2024-01-01") ELSE NoDateProp
              [] c = "Fecha de Finalizacion Real" ->
                   IF dated THEN DateProp("2024-02-01") ELSE NoDateProp
              [] c = "Valor" -> NumProp(100)
              [] c = "Celula" -> RelProp(Links(pat, "k1"))
              [] c = "Cliente/Empresa" -> RelProp(Links(pat, "c1"))
              [] c = "Producto/Servicio" -> RelProp(Links(pat, "g1"))])

Celula(id, nombre) ==
    NotionPage(id, [c \in {"Nombre", "Estado"} |->
        IF c = "Nombre" THEN TitleProp(nombre) ELSE SelectProp("Activa")])

Producto(id, nombre) ==
    NotionPage(id, [c \in {"Nombre", "Precio", "Estado de Producto"} |->
        CASE c = "Nombre" -> TitleProp(nombre)
          [] c = "Precio" -> NumProp(10)
          [] OTHER -> SelectProp("Activo")])

Cliente(id, nombre) ==
    NotionPage(id, [c \in {"Nombre", "Tamano", "Estado de Cliente", "Proyecto"} |->
        CASE c = "Nombre" -> TitleProp(nombre)
          [] c = "Tamano" -> SelectProp("Pyme")
          [] c = "Estado de Cliente" -> SelectProp("Activo")
          [] OTHER -> RelProp(<<"p1">>)])

Persona(id, nombre, pat) ==
    NotionPage(id, [c \in {"Nombre", "Cargo", "Celula"} |->
        CASE c = "Nombre" -> TitleProp(nombre)
          [] c = "Cargo" -> IF pat = "none" THEN Dict([k \in {"rich_text"} |-> EmptyList])
                            ELSE TextProp("Dev")
          [] OTHER -> RelProp(Links(pat, "k1"))])

\* the database ids of a correct configuration
DbIds == {"db_proyectos", "db_celulas", "db_productos", "db_clientes", "db_personas"}

\* the "results" a query of database id may hold (one API page)
PagesOf(id) ==
    CASE id = "db_proyectos" ->
           {<< >>,
            <<Proyecto("p1", "Alpha", "known", TRUE)>>,
            <<Proyecto("p1", "Alpha", "unknownFirst", FALSE)>>,
            <<Proyecto("p1", "Alpha", "known", TRUE), Proyecto("p2", "Beta", "knownFirst", TRUE)>>,
            <<Proyecto("p1", "Alpha", "none", FALSE), Proyecto("p2", "Beta", "unknownFirst", TRUE)>>}
      [] id = "db_celulas" ->
           {<< >>, <<Celula("k1", "Core")>>,
            <<Celula("k1", "Core"), Celula("k2", "Data"), Celula("k1", "Core 2")>>,
            <<Celula("k1", "Sin Celula")>>}
      [] id = "db_productos" ->
           {<< >>, <<Producto("g1", "Web")>>,
            <<Producto("g1", "Web"), Producto("g2", "App"), Producto("g1", "Web 2")>>}
      [] id = "db_clientes" ->
           {<< >>, <<Cliente("c1", "Acme")>>,
            <<Cliente("c1", "Acme"), Cliente("c2", "Bolt"), Cliente("c1", "Acme SA")>>}
      [] id = "db_personas" ->
           {<< >>, <<Persona("h1", "Ana", "known")>>,
            <<Persona("h1", "Ana", "unknownFirst"), Persona("h2", "Luis", "none"),
              Persona("h3", "Eva", "knownFirst")>>}

QueryBody(pg) ==
    Dict([k \in {"object", "results", "has_more"} |->
            CASE k = "object" -> Str("list") [] k = "results" -> List(pg) [] OTHER -> None])

ErrorBody == Dict([k \in {"object", "message"} |->
                     IF k = "object" THEN Str("error") ELSE Str("unauthorized")])

\* what requests.post may bring back for database id: a page, an API error
\* (JSON body), or a gateway error whose body is not JSON
Responses(id) ==
    {[status_code |-> 200, is_json |-> TRUE, body |-> QueryBody(pg)] : pg \in PagesOf(id)}
    \cup {[status_code |-> 401, is_json |-> TRUE, body |-> ErrorBody],
          [status_code |-> 502, is_json |-> FALSE, body |-> None]}

\* st.secrets: the five database ids, all distinct, or DATABASE_PERSONAS set to
\* the id of the cells database
SecretsChoices ==
    {[t \in {"proyectos", "celulas", "productos", "clientes", "personas"} |->
        "db_" \o t],
     [t \in {"proyectos", "celulas", "productos", "clientes", "personas"} |->
        IF t = "personas" THEN "db_celulas" ELSE "db_" \o t]}

Init ==
    /\ mapping = << >> /\ data = None /\ result = Pending
    /\ secrets \in SecretsChoices
    /\ cache = << >>
    /\ requests = [id \in DbIds |-> 0]
    /\ pc = "fetch"
    /\ raw = << >>
    /\ df = << >>
    /\ dicts = << >>
    /\ section = "none"
    /\ out = << >>
    /\ exc = NoExc
    /\ runs = 1

AfterFetch(r) == IF Len(r) = Len(Tables) THEN "flatten" ELSE "fetch"

\* get_notion_data(database_id) answered by st.cache_data from its store
\* (line 27): the function body does not run
FetchCached ==
    /\ pc = "fetch"
    /\ LET id == secrets[Tables[Len(raw) + 1]]
       IN  /\ id \in DOMAIN cache
           /\ raw' = Append(raw, cache[id])
           /\ pc' = AfterFetch(raw')
    /\ UNCHANGED <<cache, requests, exc>>
    /\ UNCHANGED <<secrets, df, dicts, section, out, runs>>
    /\ UNCHANGED parseVars

\* get_notion_data(database_id) on a cache miss: lines 33-40.  The value the
\* body returns, None included, is stored; a call that raises stores nothing
FetchRequest ==
    /\ pc = "fetch"
    /\ LET id == secrets[Tables[Len(raw) + 1]]
       IN  /\ id \notin DOMAIN cache
           /\ \E response \in Responses(id) :
                /\ requests' = [requests EXCEPT ![id] = @ + 1]
                /\ IF ~response.is_json
                   THEN \* response.json() raises, at line 36 or inside st.json(...) at line 39
                        /\ exc' = "JSONDecodeError"
                        /\ pc' = "raised"
                        /\ UNCHANGED <<cache, raw>>
                   ELSE LET value == IF response.status_code = 200
                                     THEN response.body ELSE None
                        IN  /\ cache' = Put(cache, id, value)
                            /\ raw' = Append(raw, value)
                            /\ pc' = AfterFetch(raw')
                            /\ UNCHANGED exc
    /\ UNCHANGED <<secrets, df, dicts, section, out, runs>>
    /\ UNCHANGED parseVars

\* data_<t> of the run, by table
DataOf(r, t) == r[CHOOSE i \in 1..Len(Tables) : Tables[i] = t]

\* parse_notion_data(data, mapping) if data else pd.DataFrame(): lines 162-166
FlattenOrEmpty(d, m) == IF Truthy(d) THEN parse_notion_data(d, m) ELSE Frame(<< >>)

\* lines 162-166
Flatten ==
    /\ pc = "flatten"
    /\ LET frames == [t \in {Tables[i] : i \in 1..Len(Tables)} |->
                         FlattenOrEmpty(DataOf(raw, t), MappingOf(t))]
       IN  IF \E t \in DOMAIN frames : IsRaise(frames[t])
           THEN /\ exc' = frames[Tables[CHOOSE i \in 1..Len(Tables) :
                                   /\ IsRaise(frames[Tables[i]])
                                   /\ \A j \in 1..(i - 1) : ~IsRaise(frames[Tables[j]])]].exc
                /\ pc' = "raised"
                /\ UNCHANGED df
           ELSE /\ df' = frames
                /\ pc' = "convert"
                /\ UNCHANGED exc
    /\ UNCHANGED <<secrets, cache, requests, raw, dicts, section, out, runs>>
    /\ UNCHANGED parseVars

\* ---- pandas frames
IsEmpty(f) == f.rows = << >>
Columns(f) == IF f.rows = << >> THEN {} ELSE DOMAIN f.rows[1]
Column(f, c) == [i \in 1..Len(f.rows) |-> f.rows[i][c]]
\* df[c] = vals
WithColumn(f, c, vals) == Frame([i \in 1..Len(f.rows) |-> Put(f.rows[i], c, vals[i])])

NaT == [t |-> "NaT"]
Ts(iso) == [t |-> "ts", iso |-> iso]
KnownDates == {"2024-01-01", "2024-01-11", "2024-02-01"}
\* days since 2024-01-01
DayNumber(iso) ==
    CASE iso = "2024-01-01" -> 0 [] iso = "2024-01-11" -> 10 [] iso = "2024-02-01" -> 31
\* .dt.to_period("M").astype(str)
MonthStr(v) ==
    IF v.t # "ts" THEN Str("NaT")
    ELSE IF v.iso = "2024-02-01" THEN Str("2024-02") ELSE Str("2024-01")

\* pd.to_datetime(value, errors="coerce"): a timestamp for an ISO date, NaT for
\* the empty string and for anything that is no date
ToDatetime(v) == IF v.t = "str" /\ v.s \in KnownDates THEN Ts(v.s) ELSE NaT

RECURSIVE convert_dates(_, _)
\* convert_dates(df, mapping): lines 172-176
convert_dates(f, m) ==
    IF m = << >> THEN f
    ELSE IF m[1][2] = "date" /\ m[1][1] \in Columns(f)
    THEN convert_dates(
             WithColumn(f, m[1][1], [i \in 1..Len(f.rows) |-> ToDatetime(f.rows[i][m[1][1]])]),
             Tail(m))
    ELSE convert_dates(f, Tail(m))

\* lines 178-182
ConvertDates ==
    /\ pc = "convert"
    /\ df' = [t \in DOMAIN df |-> convert_dates(df[t], MappingOf(t))]
    /\ pc' = "dicts"
    /\ UNCHANGED <<secrets, cache, requests, raw, dicts, section, out, exc, runs>>
    /\ UNCHANGED parseVars

RECURSIVE Zip_firstWins(_, _, _)
\* Zip keeping the first pair of a key instead of the last
Zip_firstWins(acc, keys, values) ==
    IF keys = << >> \/ values = << >> THEN acc
    ELSE IF keys[1] \in DOMAIN acc THEN Zip_firstWins(acc, Tail(keys), Tail(values))
    ELSE Zip_firstWins(Put(acc, keys[1], values[1]), Tail(keys), Tail(values))

RECURSIVE Zip(_, _, _)
\* dict(zip(keys, values)): pairs taken in order, a later pair overwriting an
\* earlier one with the same key
Zip(acc, keys, values) ==
    IF keys = << >> \/ values = << >> THEN acc
    ELSE Zip(Put(acc, keys[1], values[1]), Tail(keys), Tail(values))

\* dict(zip(df["NotionID"], df["Nombre"])): KeyError on a frame without the columns
LabelDict(f) ==
    IF ~({"NotionID", "Nombre"} \subseteq Columns(f)) THEN Raise("KeyError")
    ELSE Dict(Zip(<< >>, Column(f, "NotionID"), Column(f, "Nombre")))

\* lines 192-195, in order: the first line that raises ends the run
BuildDicts ==
    /\ pc = "dicts"
    /\ LET order == <<"clientes", "celulas", "productos", "personas">>
           built == [t \in {order[i] : i \in 1..Len(order)} |-> LabelDict(df[t])]
       IN  IF \E t \in DOMAIN built : IsRaise(built[t])
           THEN /\ exc' = "KeyError"
                /\ pc' = "raised"
                /\ UNCHANGED dicts
           ELSE /\ dicts' = [client_dict |-> built["clientes"].d,
                             celula_dict |-> built["celulas"].d,
                             producto_dict |-> built["productos"].d,
                             persona_dict |-> built["personas"].d]
                /\ pc' = "render"
                /\ UNCHANGED exc
    /\ UNCHANGED <<secrets, cache, requests, raw, df, section, out, runs>>
    /\ UNCHANGED parseVars

\* ---- relation resolution
\* the lambda written with x[-1]
FirstId_last(x) == IF x.t = "list" /\ x.l # << >> THEN x.l[Len(x.l)] ELSE None

\* lambda x: x[0] if isinstance(x, list) and x else None
FirstId(x) == IF x.t = "list" /\ x.l # << >> THEN x.l[1] ELSE None

\* .map(index) without the .fillna(default)
MapFillna_noFill(id, index, default) ==
    IF id \in DOMAIN index THEN index[id] ELSE None

\* .map(index).fillna(default) on one value: the label of id when id is a key
\* of index (and the label is not missing), else the default
MapFillna(id, index, default) ==
    IF id \in DOMAIN index /\ index[id] # None THEN index[id] ELSE Str(default)

\* df[idcol] = df[relcol].apply(first); df[namecol] = df[idcol].map(index).fillna(default)
Resolve(f, relcol, idcol, namecol, index, default) ==
    LET ids == [i \in 1..Len(f.rows) |-> FirstId(f.rows[i][relcol])]
        withIds == WithColumn(f, idcol, ids)
    IN  WithColumn(withIds, namecol,
                   [i \in 1..Len(f.rows) |-> MapFillna(ids[i], index, default)])

\* ---- aggregates
Range(q) == {q[i] : i \in 1..Len(q)}
\* series.value_counts() / groupby(...).size(): label -> number of rows
\* a chart that shows each label once, whatever the number of its records
CountBy_presence(q) == [v \in Range(q) |-> 1]
CountBy(q) == [v \in Range(q) |-> Cardinality({i \in 1..Len(q) : q[i] = v})]

RECURSIVE SumSeq(_)
SumSeq(q) == IF q = << >> THEN 0 ELSE q[1] + SumSeq(Tail(q))

IsNa(v) == v.t \in {"NaT", "None"}

RECURSIVE DropNaRows(_, _)
\* the rows, in order, that hold a value in every column of cols
DropNaRows(rows, cols) ==
    IF rows = << >> THEN << >>
    ELSE IF \A c \in cols : ~IsNa(rows[1][c])
    THEN <<rows[1]>> \o DropNaRows(Tail(rows), cols)
    ELSE DropNaRows(Tail(rows), cols)

\* df.dropna(subset=cols): KeyError when a column of cols is not in df
DropNa(f, cols) ==
    IF ~(cols \subseteq Columns(f)) THEN Raise("KeyError")
    ELSE Frame(DropNaRows(f.rows, cols))

\* (fin - ini).dt.days per row
Durations(f) ==
    [i \in 1..Len(f.rows) |->
        DayNumber(f.rows[i]["Fecha de Finalizacion Real"].iso)
        - DayNumber(f.rows[i]["Fecha de Inicio Real"].iso)]

\* what a section renders
Metric(label, n) == [w |-> "metric", label |-> label, n |-> n]
Mean(label, total, n) == [w |-> "mean", label |-> label, total |-> total, n |-> n]
Counts(label, c) == [w |-> "counts", label |-> label, counts |-> c]
Rows(label, r) == [w |-> "rows", label |-> label, rows |-> r]
Warning(msg) == [w |-> "warning", msg |-> msg]

Rendered(d, o, e) == [df |-> d, out |-> o, exc |-> e]

RealDates == {"Fecha de Inicio Real", "Fecha de Finalizacion Real"}
EndDates == {"Fecha de Finalizacion Estimada", "Fecha de Finalizacion Real"}

RECURSIVE SumOver(_, _)
\* the sum of q[i] over the positions i of S
SumOver(S, q) ==
    IF S = {} THEN 0
    ELSE LET i == CHOOSE j \in S : TRUE IN q[i] + SumOver(S \ {i}, q)

\* groupby(bycol)[valcol].mean(): label -> (sum, count)
MeanBy(f, bycol, vals) ==
    [lab \in Range(Column(f, bycol)) |->
        LET at == {i \in 1..Len(f.rows) : f.rows[i][bycol] = lab}
        IN  [total |-> SumOver(at, vals), n |-> Cardinality(at)]]

\* section "Proyectos": lines 210-278
section_proyectos(d, dc) ==
    LET P == d["proyectos"]
    IN  IF IsEmpty(P)
        THEN Rendered(d, <<Warning("No se encontraron datos de Proyectos.")>>, NoExc)
        ELSE
        LET P1 == Resolve(P, "Cliente/Empresa", "ClienteID", "ClienteName",
                          dc.client_dict, "Sin Cliente")
            df_duration == DropNa(P1, RealDates)
            P2 == Resolve(P1, "Celula", "CelulaID", "CelulaName",
                          dc.celula_dict, "Sin Celula")
            df_time == DropNa(P2, EndDates)
            P3 == WithColumn(P2, "Mes_Inicio",
                     [i \in 1..Len(P2.rows) |-> MonthStr(P2.rows[i]["Fecha de Inicio Estimada"])])
            o1 == <<Metric("Total de Proyectos", Len(P.rows)),
                    Counts("Proyectos por Estado", CountBy(Column(P, "Estado del Proyecto"))),
                    Counts("Proyectos por Cliente", CountBy(Column(P1, "ClienteName")))>>
            o2 == IF IsEmpty(df_duration)
                  THEN <<Warning("No hay suficientes datos reales para calcular la duracion.")>>
                  ELSE <<Mean("Duracion Promedio (dias)",
                              SumSeq(Durations(df_duration)), Len(df_duration.rows))>>
            o3 == <<Counts("Proyectos por Celula", CountBy(Column(P2, "CelulaName")))>>
            o4 == IF IsEmpty(df_time)
                  THEN <<Warning("No hay suficientes datos para evaluar retrasos.")>>
                  ELSE <<Counts("Retrasados vs. A Tiempo",
                            CountBy([i \in 1..Len(df_time.rows) |->
                               IF DayNumber(df_time.rows[i]["Fecha de Finalizacion Real"].iso)
                                  > DayNumber(df_time.rows[i]["Fecha de Finalizacion Estimada"].iso)
                               THEN Str("Retrasado") ELSE Str("A Tiempo")]))>>
            o5 == <<Counts("Evolucion de Proyectos", CountBy(Column(P3, "Mes_Inicio")))>>
        IN  Rendered([d EXCEPT !["proyectos"] = P3], o1 \o o2 \o o3 \o o4 \o o5, NoExc)

\* section "Celulas": lines 284-336.  Line 322 reads df_proyectos outside the
\* `if not df_proyectos.empty` of line 308
section_celulas(d, dc) ==
    IF IsEmpty(d["celulas"])
    THEN Rendered(d, <<Warning("No se encontraron datos de Celulas.")>>, NoExc)
    ELSE
    LET Pe == IF IsEmpty(d["personas"]) THEN d["personas"]
              ELSE Resolve(d["personas"], "Celula", "CelulaID", "CelulaName",
                           dc.celula_dict, "Sin Celula")
        o1 == IF IsEmpty(d["personas"])
              THEN <<Warning("No hay datos de Personas para relacionar con las Celulas.")>>
              ELSE <<Counts("Personas por Celula", CountBy(Column(Pe, "CelulaName")))>>
        Pr == IF IsEmpty(d["proyectos"]) THEN d["proyectos"]
              ELSE Resolve(d["proyectos"], "Celula", "CelulaID", "CelulaName",
                           dc.celula_dict, "Sin Celula")
        o2 == IF IsEmpty(d["proyectos"])
              THEN <<Warning("No hay datos de Proyectos.")>>
              ELSE <<Counts("Proyectos por Celula", CountBy(Column(Pr, "CelulaName")))>>
        d1 == [d EXCEPT !["personas"] = Pe, !["proyectos"] = Pr]
        df_time_cell == DropNa(Pr, RealDates)
    IN  IF IsRaise(df_time_cell) THEN Rendered(d1, o1 \o o2, df_time_cell.exc)
        ELSE IF IsEmpty(df_time_cell)
        THEN Rendered(d1, o1 \o o2 \o
                 <<Warning("No hay suficientes datos reales para evaluar la duracion por Celula.")>>,
                 NoExc)
        ELSE LET T == Resolve(df_time_cell, "Celula", "CelulaID", "CelulaName",
                              dc.celula_dict, "Sin Celula")
             IN  Rendered(d1, o1 \o o2 \o
                     <<Rows("Duracion Promedio de Proyectos por Celula",
                            MeanBy(T, "CelulaName", Durations(df_time_cell)))>>,
                     NoExc)

\* product_rev["Precio"] * product_rev["Cantidad de Proyectos"]: a Precio column
\* of None alone is an object column and None * int raises; None among numbers
\* is NaN in a float column
Ingresos(precios, cantidades) ==
    IF \A i \in 1..Len(precios) : precios[i].t # "num" THEN Raise("TypeError")
    ELSE List([i \in 1..Len(precios) |->
                 IF precios[i].t = "num" THEN Num(precios[i].n * cantidades[i]) ELSE None])

\* section "Productos/Servicios": lines 342-371
section_productos(d, dc) ==
    IF IsEmpty(d["productos"]) \/ IsEmpty(d["proyectos"])
    THEN Rendered(d, <<Warning("No hay suficientes datos de Productos o Proyectos.")>>, NoExc)
    ELSE
    LET Pr == Resolve(d["proyectos"], "Producto/Servicio", "ProductoID", "ProductoName",
                      dc.producto_dict, "Sin Producto")
        d1 == [d EXCEPT !["proyectos"] = Pr]
        o1 == <<Counts("Uso de Productos/Servicios", CountBy(Column(Pr, "ProductoName")))>>
        G == d["productos"]
        cantidades == [i \in 1..Len(G.rows) |->
                         Cardinality({j \in 1..Len(Pr.rows) :
                                        Pr.rows[j]["ProductoName"] = G.rows[i]["Nombre"]})]
        ingresos == Ingresos(Column(G, "Precio"), cantidades)
    IN  IF IsRaise(ingresos) THEN Rendered(d1, o1, ingresos.exc)
        ELSE Rendered(d1, o1 \o
                 <<Rows("Ingresos Totales por Producto/Servicio",
                        [i \in 1..Len(G.rows) |->
                            [Nombre |-> G.rows[i]["Nombre"], Precio |-> G.rows[i]["Precio"],
                             Cantidad |-> cantidades[i], Ingresos |-> ingresos.l[i]]])>>,
                 NoExc)

\* section "Clientes/Empresas": lines 377-403
section_clientes(d, dc) ==
    LET C == d["clientes"]
    IN  IF IsEmpty(C)
        THEN Rendered(d, <<Warning("No se encontraron datos de Clientes/Empresas.")>>, NoExc)
        ELSE
        LET C1 == WithColumn(C, "Cantidad de Proyectos",
                     [i \in 1..Len(C.rows) |->
                        IF C.rows[i]["Proyecto"].t = "list"
                        THEN Num(Len(C.rows[i]["Proyecto"].l)) ELSE Num(0)])
        IN  Rendered([d EXCEPT !["clientes"] = C1],
                <<Metric("Total de Clientes", Len(C.rows)),
                  Counts("Clientes Activos vs. Inactivos", CountBy(Column(C, "Estado de Cliente"))),
                  Rows("Proyectos por Cliente", Column(C1, "Cantidad de Proyectos")),
                  Counts("Tamano de Empresas", CountBy(Column(C, "Tamano")))>>,
                NoExc)

\* section "Personas": lines 409-449 (the word cloud, which only draws, is left out)
section_personas(d, dc) ==
    LET H == d["personas"]
    IN  IF IsEmpty(H)
        THEN Rendered(d, <<Warning("No se encontraron datos de Personas.")>>, NoExc)
        ELSE
        LET H1 == Resolve(H, "Celula", "CelulaID", "CelulaName", dc.celula_dict, "Sin Celula")
            cargos == [i \in 1..Len(H.rows) |->
                         IF H.rows[i]["Cargo"] = Str("") THEN Str("Sin Cargo")
                         ELSE H.rows[i]["Cargo"]]
        IN  Rendered([d EXCEPT !["personas"] = H1],
                <<Metric("Total de Personas", Len(H.rows)),
                  Counts("Personas por Celula", CountBy(Column(H1, "CelulaName"))),
                  Counts("Roles/Cargos", CountBy(cargos))>>,
                NoExc)

Sections == {"Proyectos", "Celulas", "Productos/Servicios", "Clientes/Empresas", "Personas"}

RunSection(s, d, dc) ==
    CASE s = "Proyectos" -> section_proyectos(d, dc)
      [] s = "Celulas" -> section_celulas(d, dc)
      [] s = "Productos/Servicios" -> section_productos(d, dc)
      [] s = "Clientes/Empresas" -> section_clientes(d, dc)
      [] s = "Personas" -> section_personas(d, dc)

\* lines 201-451: the sidebar choice, its section, and the closing st.write
Render ==
    /\ pc = "render"
    /\ \E s \in Sections :
         LET r == RunSection(s, df, dicts)
         IN  /\ section' = s
             /\ df' = r.df
             /\ exc' = r.exc
             /\ IF r.exc = NoExc
                THEN /\ out' = Append(r.out,
                                 Warning("Dashboard actualizado dinamicamente desde Notion API"))
                     /\ pc' = "done"
                ELSE /\ out' = r.out
                     /\ pc' = "raised"
    /\ UNCHANGED <<secrets, cache, requests, raw, dicts, runs>>
    /\ UNCHANGED parseVars

\* the next interaction (or a reload after an exception) runs the script again
\* in the same server process: everything but the cache is rebuilt
Rerun ==
    /\ pc \in {"done", "raised"}
    /\ runs < MaxRuns
    /\ runs' = runs + 1
    /\ pc' = "fetch"
    /\ raw' = << >> /\ df' = << >> /\ dicts' = << >>
    /\ section' = "none" /\ out' = << >> /\ exc' = NoExc
    /\ UNCHANGED <<secrets, cache, requests>>
    /\ UNCHANGED parseVars

Next ==
    \/ FetchCached
    \/ FetchRequest
    \/ Flatten
    \/ ConvertDates
    \/ BuildDicts
    \/ Render
    \/ Rerun

Spec == Init /\ [][Next]_vars

\* the records of the raw page, when it is a list of records
RawResults(d) == IF TopLevelOk(d) THEN d.d["results"].l ELSE << >>

(***************************************************************************)
(* Claims about the flattener (checked under SpecParse)                    *)
(***************************************************************************)

\* C1: every flat record parse_notion_data produces has an entry for every
\* column of the schema and the reserved NotionID field, whether or not the
\* raw record carried the property.
C1_EveryColumnPresent ==
    result.t = "frame" =>
        \A i \in 1..Len(result.rows) :
            DOMAIN result.rows[i] = Cols(mapping) \cup {"NotionID"}

\* a two-column schema, a page of two records, the first of which carries one
\* property and lacks the other
C1_Witness ==
    /\ result.t = "frame"
    /\ Len(mapping) = 2
    /\ Len(result.rows) >= 2
    /\ PropAbsent(RawResults(data)[1], "Nombre")
    /\ ~PropAbsent(RawResults(data)[1], "Valor")

\* C2: a column whose property is fully absent from the raw record flattens to
\* the default of its kind: 0 for number, [] for relation, "" for every other
\* kind, the unrecognized ones included.
C2_AbsentGivesDefault ==
    result.t = "frame" =>
        \A i \in 1..Len(result.rows) : \A c \in Cols(mapping) :
            PropAbsent(RawResults(data)[i], c) =>
                result.rows[i][c] = DefaultOf(KindOf(mapping, c))

\* a record without properties flattened under a (number, relation) schema
C2_Witness ==
    /\ result.t = "frame"
    /\ mapping = << <<"Nombre", "number">>, <<"Valor", "relation">> >>
    /\ Len(result.rows) >= 1
    /\ PropAbsent(RawResults(data)[1], "Nombre")
    /\ PropAbsent(RawResults(data)[1], "Valor")
    /\ result.rows[1]["Nombre"] = Num(0)
    /\ result.rows[1]["Valor"] = EmptyList

\* C3: flattening is total at the property level: whatever is present, absent
\* or malformed inside the properties of a record (a null or wrongly typed
\* inner value included), parse_notion_data does not raise; it raises only for
\* a raw page that is malformed above that level.
C3_TotalAtPropertyLevel ==
    MalformedOnlyInProperties(data) => ~IsRaise(result)

\* the property for column c is present in raw record r as an object whose
\* nested value, the one under the key of kind k, is missing or null
NestedMissingOrNull(r, c, k) ==
    /\ ~PropAbsent(r, c)
    /\ r.d["properties"].d[c].t = "dict"
    /\ \/ k \notin DOMAIN r.d["properties"].d[c].d
       \/ r.d["properties"].d[c].d[k] = None

\* every property of every record of the page is either fully absent or
\* present with a missing or null nested value
OnlyAbsentOrNullNested(d, m) ==
    /\ MalformedOnlyInProperties(d)
    /\ \A i \in 1..Len(RawResults(d)) : \A c \in Cols(m) :
          \/ PropAbsent(RawResults(d)[i], c)
          \/ NestedMissingOrNull(RawResults(d)[i], c, KindOf(m, c))

\* C11: a property that is present in the raw record but whose nested value
\* is missing or null flattens to the default of its kind, as a fully absent
\* property does: 0 for number, [] for relation, "" for every other kind.
C11_NullNestedGivesDefault ==
    (result # Pending /\ OnlyAbsentOrNullNested(data, mapping)) =>
        /\ result.t = "frame"
        /\ \A i \in 1..Len(result.rows) : \A c \in Cols(mapping) :
              NestedMissingOrNull(RawResults(data)[i], c, KindOf(mapping, c))
              => result.rows[i][c] = DefaultOf(KindOf(mapping, c))

(***************************************************************************)
(* Claims about the script run (checked under Spec)                        *)
(***************************************************************************)
TableSet == {Tables[i] : i \in 1..Len(Tables)}
AllFetched == Len(raw) = Len(Tables)

\* get_notion_data returned a page that holds records
Populated(d) ==
    d.t = "dict" /\ "results" \in DOMAIN d.d /\ d.d["results"].t = "list"
    /\ d.d["results"].l # << >>
\* get_notion_data returned a page that holds no record
EmptyPage(d) ==
    d.t = "dict" /\ "results" \in DOMAIN d.d /\ d.d["results"] = EmptyList

\* C4: when the fetch of one table answers non-2xx (get_notion_data returns
\* None) and the other four tables are populated, that table's flat table is
\* empty and the run goes on through flattening, the label indices and the
\* section without raising.
C4_FailedFetchIsLocal ==
    \A t \in TableSet :
        (/\ AllFetched
         /\ DataOf(raw, t) = None
         /\ \A u \in TableSet \ {t} : Populated(DataOf(raw, u)))
        => /\ exc = NoExc
           /\ df # << >> => IsEmpty(df[t])

\* C5: when the fetch of one table succeeds with an empty list of records and
\* the other four tables are populated, that table's flat table is empty and
\* every later step of the run completes without raising.
C5_EmptyPageIsHarmless ==
    \A t \in TableSet :
        (/\ AllFetched
         /\ EmptyPage(DataOf(raw, t))
         /\ \A u \in TableSet \ {t} : Populated(DataOf(raw, u)))
        => /\ exc = NoExc
           /\ df # << >> => IsEmpty(df[t])

\* the places that resolve a relation column: frame, relation column, name
\* column, label index, default label
ResolveSites ==
    IF dicts = << >> \/ df = << >> THEN {}
    ELSE {<<"proyectos", "Cliente/Empresa", "ClienteName", dicts.client_dict, "Sin Cliente">>,
          <<"proyectos", "Celula", "CelulaName", dicts.celula_dict, "Sin Celula">>,
          <<"proyectos", "Producto/Servicio", "ProductoName", dicts.producto_dict, "Sin Producto">>,
          <<"personas", "Celula", "CelulaName", dicts.celula_dict, "Sin Celula">>}

\* the rows of a site whose name column has been written
ResolvedRows(site) ==
    {r \in Range(df[site[1]].rows) : site[3] \in DOMAIN r}

\* C6: a record whose relation list is empty, or whose first identifier is no
\* key of the label index, resolves to the default label, whatever identifiers
\* follow the first.
C6_UnresolvedGivesDefault ==
    \A site \in ResolveSites : \A r \in ResolvedRows(site) :
        (r[site[2]].l = << >> \/ r[site[2]].l[1] \notin DOMAIN site[4])
        => r[site[3]] = Str(site[5])

\* a project without client, and one whose client list is an unknown id
\* followed by an id of the index, both shown as "Sin Cliente"
C6_Witness ==
    /\ section = "Proyectos" /\ pc = "done"
    /\ \E r \in Range(df["proyectos"].rows) :
          r["Cliente/Empresa"].l = << >> /\ r["ClienteName"] = Str("Sin Cliente")
    /\ \E r \in Range(df["proyectos"].rows) :
          /\ Len(r["Cliente/Empresa"].l) = 2
          /\ r["Cliente/Empresa"].l[1] \notin DOMAIN dicts.client_dict
          /\ r["Cliente/Empresa"].l[2] \in DOMAIN dicts.client_dict
          /\ r["ClienteName"] = Str("Sin Cliente")

\* C7: a record whose relation list is not empty and whose first identifier is
\* a key of the label index resolves to that key's label; two records with the
\* same first identifier resolve alike, whatever follows it.
C7_FirstIdentifierOnly ==
    \A site \in ResolveSites :
        /\ \A r \in ResolvedRows(site) :
              (r[site[2]].l # << >> /\ r[site[2]].l[1] \in DOMAIN site[4])
              => r[site[3]] = site[4][r[site[2]].l[1]]
        /\ \A r1 \in ResolvedRows(site) : \A r2 \in ResolvedRows(site) :
              (/\ r1[site[2]].l # << >> /\ r2[site[2]].l # << >>
               /\ r1[site[2]].l[1] = r2[site[2]].l[1])
              => r1[site[3]] = r2[site[3]]

\* two projects of product g1, one of them with a second, unknown product:
\* both are counted under the label of g1
C7_Witness ==
    /\ section = "Productos/Servicios" /\ pc = "done"
    /\ \E r1 \in Range(df["proyectos"].rows) : \E r2 \in Range(df["proyectos"].rows) :
          /\ r1["Producto/Servicio"].l = <<Str("g1")>>
          /\ r2["Producto/Servicio"].l = <<Str("g1"), Str("zz")>>
          /\ Str("g1") \in DOMAIN dicts.producto_dict
          /\ r1["ProductoName"] = dicts.producto_dict[Str("g1")]
          /\ r2["ProductoName"] = dicts.producto_dict[Str("g1")]

\* the label indices with the table each is built from
IndexSites ==
    IF dicts = << >> THEN {}
    ELSE {<<dicts.client_dict, "clientes">>, <<dicts.celula_dict, "celulas">>,
          <<dicts.producto_dict, "productos">>, <<dicts.persona_dict, "personas">>}

\* C8: a label index has exactly the distinct NotionIDs of its table as keys,
\* and maps each to the Nombre of the last record of the table with that id.
C8_LabelIndexLastWins ==
    \A site \in IndexSites :
        LET index == site[1]
            rows == df[site[2]].rows
        IN  /\ DOMAIN index = {rows[i]["NotionID"] : i \in 1..Len(rows)}
            /\ \A i \in 1..Len(rows) :
                  (\A j \in (i + 1)..Len(rows) : rows[j]["NotionID"] # rows[i]["NotionID"])
                  => index[rows[i]["NotionID"]] = rows[i]["Nombre"]

\* the clients table holds c1 twice, as "Acme" and later as "Acme SA", and c2
C8_Witness ==
    /\ dicts # << >>
    /\ Len(df["clientes"].rows) = 3
    /\ df["clientes"].rows[1]["NotionID"] = df["clientes"].rows[3]["NotionID"]
    /\ df["clientes"].rows[1]["Nombre"] = Str("Acme")
    /\ dicts.client_dict[Str("c1")] = Str("Acme SA")
    /\ Cardinality(DOMAIN dicts.client_dict) = 2

\* C9: within one server process at most one HTTP request is issued per
\* database id, whatever the sequence of get_notion_data calls.
C9_OneRequestPerId ==
    \A id \in DbIds : requests[id] <= 1

\* C10: no section raises when a table it uses is empty: every read of a
\* column of a table comes after a check that the table is not empty.
C10_NoSectionRaises ==
    (section # "none" /\ \E t \in TableSet : IsEmpty(df[t])) => exc = NoExc

\* the charts that count a flat table by a resolved label: chart, table,
\* relation column, name column, label index, default label
AggregateSites ==
    IF pc # "done" THEN {}
    ELSE {<<"Proyectos por Cliente", "proyectos", "Cliente/Empresa", "ClienteName",
            dicts.client_dict, "Sin Cliente">>,
          <<"Proyectos por Celula", "proyectos", "Celula", "CelulaName",
            dicts.celula_dict, "Sin Celula">>,
          <<"Personas por Celula", "personas", "Celula", "CelulaName",
            dicts.celula_dict, "Sin Celula">>,
          <<"Uso de Productos/Servicios", "proyectos", "Producto/Servicio", "ProductoName",
            dicts.producto_dict, "Sin Producto">>}

\* the charts of the rendered section drawn under a title
Charts(label) ==
    {e \in Range(out) : e.w = "counts" /\ e.label = label}

\* the bar of a chart under value v: absent from value_counts() when no
\* record has it
CountUnder(c, v) == IF v \in DOMAIN c THEN c[v] ELSE 0

\* the records of a site that are grouped under its default label
SentinelGroup(site) ==
    {i \in 1..Len(df[site[2]].rows) : df[site[2]].rows[i][site[4]] = Str(site[6])}

\* the records of a site whose relation list is empty or whose first
\* identifier is no key of the label index
UnresolvedRecords(site) ==
    {i \in 1..Len(df[site[2]].rows) :
        \/ df[site[2]].rows[i][site[3]].l = << >>
        \/ df[site[2]].rows[i][site[3]].l[1] \notin DOMAIN site[5]}

\* the records of a site whose first identifier is a key of the label index
\* and has the default label itself as its label
ResolvedToSentinelText(site) ==
    {i \in 1..Len(df[site[2]].rows) :
        /\ df[site[2]].rows[i][site[3]].l # << >>
        /\ df[site[2]].rows[i][site[3]].l[1] \in DOMAIN site[5]
        /\ site[5][df[site[2]].rows[i][site[3]].l[1]] = Str(site[6])}

\* C12 as stated: in every chart that counts a flat table by a resolved
\* label, the group counted under the default label holds exactly the records
\* whose relation list is empty or whose first identifier is not in the label
\* index, and no record that resolved to an entity.
C12_SentinelGroupIsUnresolved ==
    \A site \in AggregateSites : \A e \in Charts(site[1]) :
        /\ CountUnder(e.counts, Str(site[6])) = Cardinality(SentinelGroup(site))
        /\ SentinelGroup(site) = UnresolvedRecords(site)

\* C12, amended: the group counted under the default label holds every record
\* whose relation list is empty or whose first identifier is not in the label
\* index, and besides them exactly the records that resolved to an entity
\* whose own Nombre is the text of the default label; when the index gives
\* that text to no entity, the group is exactly the unresolved records.
C12_SentinelGroupUpToLabelText ==
    \A site \in AggregateSites : \A e \in Charts(site[1]) :
        /\ CountUnder(e.counts, Str(site[6])) = Cardinality(SentinelGroup(site))
        /\ SentinelGroup(site) = UnresolvedRecords(site) \cup ResolvedToSentinelText(site)
        /\ (\A id \in DOMAIN site[5] : site[5][id] # Str(site[6]))
              => SentinelGroup(site) = UnresolvedRecords(site)

\* section "Personas" over three people, two without a known first cell and
\* one of cell k1, with k1 named "Sin Celula" in Notion: the chart counts the
\* three under "Sin Celula"
C12_Witness ==
    /\ pc = "done" /\ section = "Personas"
    /\ Len(df["personas"].rows) = 3
    /\ dicts.celula_dict = [id \in {Str("k1")} |-> Str("Sin Celula")]
    /\ \E e \in Charts("Personas por Celula") :
          e.counts = [v \in {Str("Sin Celula")} |-> 3]
    /\ Cardinality(UnresolvedRecords(<<"Personas por Celula", "personas", "Celula",
                        "CelulaName", dicts.celula_dict, "Sin Celula">>)) = 2

====
